---- MODULE Spec2Model ----
(***************************************************************************)
(* Verification model of helm-values-manager.                              *)
(*                                                                         *)
(*   Validator       helm_values_manager/validator.py                      *)
(*   GenerateCommand helm_values_manager/commands/generate_command.py      *)
(*   BaseCommand     helm_values_manager/commands/base_command.py          *)
(*   SimpleValueBackend  helm_values_manager/backends/simple.py            *)
(*   schema commands helm_values_manager/commands/schema.py                *)
(*   values commands helm_values_manager/commands/values.py                *)
(*   utilities       helm_values_manager/utils.py                          *)
(*                                                                         *)
(* Strings that the code inspects character by character (schema paths,    *)
(* configuration paths) are sequences of one-character strings.  JSON      *)
(* values are records that keep the Python type of the value and, for a    *)
(* mapping, what its "type" and "name" fields hold.                        *)
(***************************************************************************)
EXTENDS Integers, Sequences, FiniteSets, TLC

\* Longest schema document (number of entries under "values").
MaxEntries == 2

(***************************************************************************)
(* JSON values as json.load returns them                                   *)
(***************************************************************************)
NoField == "<absent>"
NonString == "<non-string>"

JsonValue(kind, ty, name) == [kind |-> kind, ty |-> ty, name |-> name]

VStr == JsonValue("str", NoField, NoField)
VInt == JsonValue("int", NoField, NoField)
VFloat == JsonValue("float", NoField, NoField)
VBool == JsonValue("bool", NoField, NoField)
VNull == JsonValue("NoneType", NoField, NoField)
VList == JsonValue("list", NoField, NoField)
VDict == JsonValue("dict", NoField, "DB_PW")
VEnvRef == JsonValue("dict", "env", "DB_PW")
VEnvNoName == JsonValue("dict", "env", NoField)
VEnvBadName == JsonValue("dict", "env", NonString)
VVault == JsonValue("dict", "vault", "DB_PW")
VNumType == JsonValue("dict", NonString, "DB_PW")

\* Names an env reference can carry besides an ordinary one: the empty string,
\* and a name holding a lone surrogate (JSON "\ud800"), which Python cannot
\* encode for the lookup in os.environ.
EmptyName == ""
SurrogateName == "<lone-surrogate>"

VEnvEmptyName == JsonValue("dict", "env", EmptyName)
VEnvSurrogate == JsonValue("dict", "env", SurrogateName)

Literals == {VStr, VInt, VFloat, VBool, VNull, VList, VDict}
SecretDicts == {VEnvRef, VEnvNoName, VEnvBadName, VVault, VNumType}
JsonValues == Literals \cup SecretDicts

\* Python's class hierarchy as isinstance sees it: bool is a subclass of int.
PyBases(kind) == IF kind = "bool" THEN {"bool", "int"} ELSE {kind}

IsInstance(value, classes) == PyBases(value.kind) \cap classes # {}

ValueTypes == {"string", "number", "boolean", "array", "object"}

\* Mutant of the rule: number without the test that excludes bool.
ValidateValueTypeNoBoolGuard(value, expected_type) ==
    CASE expected_type = "string" -> IsInstance(value, {"str"})
      [] expected_type = "number" -> IsInstance(value, {"int", "float"})
      [] expected_type = "boolean" -> IsInstance(value, {"bool"})
      [] expected_type = "array" -> IsInstance(value, {"list"})
      [] expected_type = "object" -> IsInstance(value, {"dict"})
      [] OTHER -> FALSE

\* Validator._validate_value_type
ValidateValueType(value, expected_type) ==
    CASE expected_type = "string" -> IsInstance(value, {"str"})
      [] expected_type = "number" ->
            IsInstance(value, {"int", "float"}) /\ ~IsInstance(value, {"bool"})
      [] expected_type = "boolean" -> IsInstance(value, {"bool"})
      [] expected_type = "array" -> IsInstance(value, {"list"})
      [] expected_type = "object" -> IsInstance(value, {"dict"})
      [] OTHER -> FALSE

(***************************************************************************)
(* Validation errors                                                       *)
(***************************************************************************)
NoEnv == <<>>
NoKey == "<no-key>"
NoPath == <<"<no-path>">>
NoDetail == "<no-detail>"

\* ValidationError.__init__: context, message, env.  The message is kept as
\* its template (kind) and the values formatted into it.
ValidationError(context, kind, key, path, detail, env) ==
    [context |-> context, kind |-> kind, key |-> key, path |-> path,
     detail |-> detail, env |-> env]

ErrVersion(v) == ValidationError("Schema", "Unsupported version", NoKey, NoPath, v, NoEnv)
ErrDupKey(k) == ValidationError("Schema", "Duplicate key", k, NoPath, NoDetail, NoEnv)
ErrDupPath(p) == ValidationError("Schema", "Duplicate path", NoKey, p, NoDetail, NoEnv)
ErrPathFormat(p) == ValidationError("Schema", "Invalid path format", NoKey, p, NoDetail, NoEnv)
ErrType(k, t) == ValidationError("Schema", "Invalid type", k, NoPath, t, NoEnv)
ErrDefault(k) == ValidationError("Schema", "Default value type mismatch", k, NoPath, NoDetail, NoEnv)
ErrSchemaFile(kind) == ValidationError("Schema", kind, NoKey, NoPath, NoDetail, NoEnv)
ErrValuesJson(env) == ValidationError("Values", "Invalid JSON", NoKey, NoPath, NoDetail, env)
ErrUnknownKey(k, env) == ValidationError("Values", "Unknown key", k, NoPath, NoDetail, env)
ErrSecretStructure(k, env) == ValidationError("Values", "Invalid secret structure", k, NoPath, NoDetail, env)
ErrTypeMismatch(k, t, env) == ValidationError("Values", "Type mismatch", k, NoPath, t, env)
ErrMissingRequired(k, env) == ValidationError("Values", "Missing required value", k, NoPath, NoDetail, env)
ErrUnsupportedSecret(ty) == ValidationError("Values", "Unsupported secret type", NoKey, NoPath, ty, NoEnv)

(***************************************************************************)
(* Schema documents                                                        *)
(***************************************************************************)
\* SchemaValue (pydantic model): one entry of the schema.
SchemaValue(key, path, type, required, default, sensitive) ==
    [key |-> key, path |-> path, type |-> type, required |-> required,
     default |-> default, sensitive |-> sensitive]

AlnumChars == {"a", "b", "c"}

\* str.isalnum on one character
IsAlnum(c) == c \in AlnumChars

Pa == <<"a">>
Pab == <<"a", ".", "b">>
Pslash == <<"a", "/">>

VARIABLES
    schema_status,   \* "ok", "missing", "badjson" or "invalid": what loading schema_path gives
    schema_version,  \* Schema.version
    schema,          \* Schema.values, in declaration order
    files,           \* the values directory: environment of each values-<env>.json -> document
    errors,          \* Validator.errors
    v_env,           \* the env argument of the last validate_all call (NoEnv: none given)
    v_exc,           \* exception validate_all propagated, or NoExc
    v_result,        \* "none" before the call, then "pass", "fail" or "raised"
    environ,         \* os.environ: variable name -> "unset", "empty" or "set"
    v_warnings       \* the warnings the last validate_all call printed

vvars == <<schema_status, schema_version, schema, files, errors, v_env, v_exc, v_result,
           environ, v_warnings>>

VARIABLES
    tc_value,        \* the value handed to _validate_value_type
    tc_type,         \* the expected_type handed to it
    tc_done,         \* whether it has returned
    tc_result        \* what it returned

tcvars == <<tc_value, tc_type, tc_done, tc_result>>

VARIABLES
    path_map,        \* HelmValuesConfig._path_map, in insertion order
    deployments,     \* names in HelmValuesConfig.deployments
    g_loaded,        \* whether the last generate was handed a configuration (config is not None)
    g_deployment,    \* the deployment argument of the last generate, or NoCall
    g_exc,           \* the exception GenerateCommand.run raised, or NoExc
    g_missing,       \* the paths named by the missing-required-values error
    g_tree,          \* the values tree _generate_values_dict returned, or NoTree
    g_file,          \* what was written to the values file, or NoTree
    g_outdir         \* whether the output directory exists

gvars == <<path_map, deployments, g_loaded, g_deployment, g_exc, g_missing, g_tree, g_file,
           g_outdir>>

VARIABLES
    pc,              \* where each process is in BaseCommand.execute
    command,         \* the command each process runs
    lock_fd,         \* BaseCommand._lock_fd of each process
    lock_file,       \* whether .helm-values.lock exists
    flock_owner,     \* the process whose descriptor holds the exclusive flock, or NoProc
    config_file,     \* helm-values.json: AbsentFile, BadJsonFile or a Revision
    config,          \* the configuration each process holds (a Revision), or NoConfig
    x_exc            \* the exception propagating out of execute in each process

lvars == <<pc, command, lock_fd, lock_file, flock_owner, config_file, config, x_exc>>

VARIABLES
    storage,         \* SimpleValueBackend._storage: storage key -> value
    b_call,          \* the last set_value / remove_value call and its arguments
    b_exc            \* the exception that call raised, or NoExc

bvars == <<storage, b_call, b_exc>>

VARIABLES
    ve_error,        \* a ValidationError object
    ve_str           \* str(ve_error) once taken, NoStr before

svars == <<ve_error, ve_str>>

VARIABLES
    pv_str,          \* the value_str handed to parse_value_by_type
    pv_type,         \* the value_type handed to it
    pv_result        \* what the call did: NotParsed, a returned value, or BadParameter

pvars == <<pv_str, pv_type, pv_result>>

VARIABLES
    pf_path,         \* a path string
    pf_editor,       \* validate_path_format(pf_path): "none" before the call, "accept", "reject"
    pf_validator     \* whether _validate_schema accepts an entry with that path, likewise

fvars == <<pf_path, pf_editor, pf_validator>>

VARIABLES
    saved_values     \* environment -> values-<env>.json as the values commands read and write it

evars == <<saved_values>>

uvars == <<bvars, svars, pvars, fvars, evars>>

vars == <<vvars, tcvars, gvars, lvars, uvars>>

NoExc == "<no-exception>"

(***************************************************************************)
(* Validator                                                               *)
(***************************************************************************)
\* Validator._validate_secret_structure: the verdict and the errors the call
\* itself appends to Validator.errors.
ValidateSecretStructure(value) ==
    IF ~IsInstance(value, {"dict"}) THEN [ok |-> FALSE, appended |-> <<>>]
    ELSE IF value.ty = NoField THEN [ok |-> FALSE, appended |-> <<>>]
    ELSE IF value.ty = "env"
         THEN [ok |-> value.name # NoField /\ value.name # NonString, appended |-> <<>>]
    ELSE [ok |-> FALSE, appended |-> <<ErrUnsupportedSecret(value.ty)>>]

\* all(c.isalnum() or c in '.-_' for c in entry.path)
PathFormatOk(path) ==
    \A i \in 1..Len(path) : IsAlnum(path[i]) \/ path[i] \in {".", "-", "_"}

\* Mutant of the loop body: the checks are chained, the first error found
\* ends the iteration.
EntryErrorsFirstOnly(entry, seen_keys, seen_paths) ==
    IF entry.key \in seen_keys THEN <<ErrDupKey(entry.key)>>
    ELSE IF entry.path \in seen_paths THEN <<ErrDupPath(entry.path)>>
    ELSE IF ~PathFormatOk(entry.path) THEN <<ErrPathFormat(entry.path)>>
    ELSE IF entry.type \notin ValueTypes THEN <<ErrType(entry.key, entry.type)>>
    ELSE IF entry.default # VNull /\ ~ValidateValueType(entry.default, entry.type)
         THEN <<ErrDefault(entry.key)>>
    ELSE <<>>

\* One iteration of the loop over schema.values in _validate_schema: the
\* errors entry adds, given the keys and paths seen before it.
EntryErrors(entry, seen_keys, seen_paths) ==
    (IF entry.key \in seen_keys THEN <<ErrDupKey(entry.key)>> ELSE <<>>)
    \o (IF entry.path \in seen_paths THEN <<ErrDupPath(entry.path)>> ELSE <<>>)
    \o (IF ~PathFormatOk(entry.path) THEN <<ErrPathFormat(entry.path)>> ELSE <<>>)
    \o (IF entry.type \notin ValueTypes THEN <<ErrType(entry.key, entry.type)>> ELSE <<>>)
    \o (IF entry.default # VNull /\ ~ValidateValueType(entry.default, entry.type)
        THEN <<ErrDefault(entry.key)>> ELSE <<>>)

\* Mutant of the loop: the path is added to seen_paths before it is looked up.
RECURSIVE SchemaEntriesLoopAddFirst(_, _, _, _, _)
SchemaEntriesLoopAddFirst(entries, i, seen_keys, seen_paths, errs) ==
    IF i > Len(entries) THEN errs
    ELSE LET entry == entries[i]
         IN SchemaEntriesLoopAddFirst(entries, i + 1, seen_keys \cup {entry.key},
                                      seen_paths \cup {entry.path},
                                      errs \o EntryErrors(entry, seen_keys,
                                                          seen_paths \cup {entry.path}))

\* The loop `for entry in schema.values` of _validate_schema, from entry i on.
RECURSIVE SchemaEntriesLoop(_, _, _, _, _)
SchemaEntriesLoop(entries, i, seen_keys, seen_paths, errs) ==
    IF i > Len(entries) THEN errs
    ELSE LET entry == entries[i]
         IN SchemaEntriesLoop(entries, i + 1, seen_keys \cup {entry.key},
                              seen_paths \cup {entry.path},
                              errs \o EntryErrors(entry, seen_keys, seen_paths))

\* Validator._validate_schema: Validator.errors after the call.
ValidateSchema(errs) ==
    CASE schema_status = "missing" -> Append(errs, ErrSchemaFile("File not found"))
      [] schema_status = "badjson" -> Append(errs, ErrSchemaFile("Invalid JSON"))
      [] schema_status = "invalid" -> Append(errs, ErrSchemaFile("Invalid schema"))
      [] OTHER ->
            SchemaEntriesLoop(schema, 1, {}, {},
                IF schema_version # "1.0" THEN Append(errs, ErrVersion(schema_version))
                ELSE errs)

\* schema_map = {entry.key: entry for entry in schema.values}: a later
\* entry replaces an earlier one with the same key.
SchemaMapKeys == {schema[i].key : i \in 1..Len(schema)}

SchemaMap(key) ==
    schema[CHOOSE i \in 1..Len(schema) :
              /\ schema[i].key = key
              /\ \A j \in 1..Len(schema) : schema[j].key = key => j <= i]

\* Mutant of the loop body: the type check also runs for sensitive entries.
ValueErrorsTypeAlways(key, value, env) ==
    IF key \notin SchemaMapKeys THEN <<ErrUnknownKey(key, env)>>
    ELSE LET entry == SchemaMap(key)
             verdict == ValidateSecretStructure(value)
         IN (IF entry.sensitive
             THEN verdict.appended
                  \o (IF ~verdict.ok THEN <<ErrSecretStructure(key, env)>> ELSE <<>>)
             ELSE <<>>)
            \o (IF ~ValidateValueType(value, entry.type)
                THEN <<ErrTypeMismatch(key, entry.type, env)>> ELSE <<>>)

\* Body of `for key, value in env_values.items()` in _validate_values_for_env.
ValueErrors(key, value, env) ==
    IF key \notin SchemaMapKeys THEN <<ErrUnknownKey(key, env)>>
    ELSE LET entry == SchemaMap(key)
             verdict == ValidateSecretStructure(value)
         IN IF entry.sensitive
            THEN verdict.appended
                 \o (IF ~verdict.ok THEN <<ErrSecretStructure(key, env)>> ELSE <<>>)
            ELSE IF ~ValidateValueType(value, entry.type)
                 THEN <<ErrTypeMismatch(key, entry.type, env)>>
                 ELSE <<>>

\* What a validation run has produced so far: Validator.errors, the warnings
\* printed, and the exception that ended it (NoExc while it runs).
Acc(errs, warnings, exc) == [errors |-> errs, warnings |-> warnings, exc |-> exc]

\* os.environ.get(name)
EnvironGet(env_vars, name) == IF name \in DOMAIN env_vars THEN env_vars[name] ELSE "unset"

NoLookup == [warnings |-> <<>>, exc |-> NoExc]

Warning(env_var, key, env) ==
    [kind |-> "Environment variable not found", name |-> env_var, key |-> key, env |-> env]

\* Mutant of the lookup: os.environ[env_var] in place of os.environ.get, so an
\* unset variable raises KeyError.
EnvVarLookupIndexing(key, value, env, env_vars) ==
    IF ~(IsInstance(value, {"dict"}) /\ value.ty = "env") THEN NoLookup
    ELSE LET env_var == IF value.name = NoField THEN EmptyName ELSE value.name
         IN IF env_var = EmptyName THEN NoLookup
            ELSE IF env_var = SurrogateName
                 THEN [warnings |-> <<>>, exc |-> "UnicodeEncodeError"]
            ELSE IF EnvironGet(env_vars, env_var) = "unset"
                 THEN [warnings |-> <<>>, exc |-> "KeyError"]
            ELSE IF EnvironGet(env_vars, env_var) = "empty"
                 THEN [warnings |-> <<Warning(env_var, key, env)>>, exc |-> NoExc]
                 ELSE NoLookup

\* The else branch of `if not self._validate_secret_structure(value)`: the
\* variable named by an env reference is looked up and a warning printed
\* when it is unset or empty.  os.environ.get encodes the name first, which
\* raises UnicodeEncodeError for a lone surrogate.
EnvVarLookup(key, value, env, env_vars) ==
    IF ~(IsInstance(value, {"dict"}) /\ value.ty = "env") THEN NoLookup
    ELSE LET env_var == IF value.name = NoField THEN EmptyName ELSE value.name
         IN IF env_var = EmptyName THEN NoLookup
            ELSE IF env_var = SurrogateName
                 THEN [warnings |-> <<>>, exc |-> "UnicodeEncodeError"]
            ELSE IF EnvironGet(env_vars, env_var) \in {"unset", "empty"}
                 THEN [warnings |-> <<Warning(env_var, key, env)>>, exc |-> NoExc]
                 ELSE NoLookup

\* One iteration of `for key, value in env_values.items()`: the errors of
\* the key and, for a well-formed secret, the lookup of its variable.
ValueStep(acc, key, value, env, env_vars) ==
    LET looked == IF /\ key \in SchemaMapKeys
                     /\ SchemaMap(key).sensitive
                     /\ ValidateSecretStructure(value).ok
                  THEN EnvVarLookup(key, value, env, env_vars)
                  ELSE NoLookup
    IN Acc(acc.errors \o ValueErrors(key, value, env),
           acc.warnings \o looked.warnings, looked.exc)

\* The loop over env_values.items(); order is the order of the keys in the
\* document.  An exception ends it.
RECURSIVE ValuesLoop(_, _, _, _, _, _)
ValuesLoop(env_values, order, i, env, env_vars, acc) ==
    IF i > Len(order) \/ acc.exc # NoExc THEN acc
    ELSE ValuesLoop(env_values, order, i + 1, env, env_vars,
                    ValueStep(acc, order[i], env_values[order[i]], env, env_vars))

\* Mutant of the test: the default is not looked at.
MissingRequiredOfNoDefaultTest(entry, env_values, env) ==
    IF entry.required /\ entry.key \notin DOMAIN env_values
    THEN <<ErrMissingRequired(entry.key, env)>> ELSE <<>>

\* `for entry in schema.values: if entry.required and entry.key not in
\* env_values and entry.default is None`
MissingRequiredOf(entry, env_values, env) ==
    IF entry.required /\ entry.key \notin DOMAIN env_values /\ entry.default = VNull
    THEN <<ErrMissingRequired(entry.key, env)>> ELSE <<>>

\* Mutant of the scan: it stops at the first missing value.
RECURSIVE MissingLoopBreak(_, _, _, _)
MissingLoopBreak(env_values, i, env, errs) ==
    IF i > Len(schema) THEN errs
    ELSE LET found == MissingRequiredOf(schema[i], env_values, env)
         IN IF found # <<>> THEN errs \o found
            ELSE MissingLoopBreak(env_values, i + 1, env, errs)

RECURSIVE MissingLoop(_, _, _, _)
MissingLoop(env_values, i, env, errs) ==
    IF i > Len(schema) THEN errs
    ELSE MissingLoop(env_values, i + 1, env,
                     errs \o MissingRequiredOf(schema[i], env_values, env))

\* Lines 148-186 of _validate_values_for_env, once both documents are loaded.
EnvChecks(env_values, order, env, env_vars, acc) ==
    LET checked == ValuesLoop(env_values, order, 1, env, env_vars, acc)
    IN IF checked.exc # NoExc THEN checked
       ELSE [checked EXCEPT !.errors = MissingLoop(env_values, 1, env, @)]

(***************************************************************************)
(* The values directory                                                    *)
(***************************************************************************)
Doc(shape, env_values) == [shape |-> shape, env_values |-> env_values]

EmptyMapping == [k \in {} |-> VNull]

AbsentDoc == Doc("absent", EmptyMapping)

\* File names are sequences of tokens: values-<env>.json has the stem
\* "values-" followed by the tokens of env.
StemOf(env) == <<"values-">> \o env

\* values_file.stem.replace("values-", "")
EnvOfStem(stem) == SelectSeq(stem, LAMBDA t : t # "values-")

\* self.values_base_path / f"values-{env}.json"
FileOf(env) == IF env \in DOMAIN files THEN files[env] ELSE AbsentDoc

Perms(S) == {f \in [1..Cardinality(S) -> S] : \A i, j \in DOMAIN f : i # j => f[i] # f[j]}

\* Mutant of the call: a missing values file is read as an empty mapping.
ValidateValuesForEnvAbsentEmpty(env, order, env_vars, acc) ==
    LET doc == FileOf(env)
    IN CASE doc.shape = "absent" /\ schema_status # "ok" -> acc
         [] doc.shape = "absent" -> EnvChecks(EmptyMapping, <<>>, env, env_vars, acc)
         [] doc.shape = "badjson" -> [acc EXCEPT !.errors = Append(@, ErrValuesJson(env))]
         [] doc.shape = "notmap" -> [acc EXCEPT !.exc = "AttributeError"]
         [] schema_status # "ok" -> acc
         [] doc.shape = "envnotmap" -> [acc EXCEPT !.exc = "AttributeError"]
         [] OTHER -> EnvChecks(doc.env_values, order, env, env_vars, acc)

\* Validator._validate_values_for_env: the run after the call.  order is the
\* order in which the document lists the environment's keys.
ValidateValuesForEnv(env, order, env_vars, acc) ==
    LET doc == FileOf(env)
    IN CASE doc.shape = "absent" -> acc
         [] doc.shape = "badjson" -> [acc EXCEPT !.errors = Append(@, ErrValuesJson(env))]
         [] doc.shape = "notmap" -> [acc EXCEPT !.exc = "AttributeError"]
         [] schema_status # "ok" -> acc
         [] doc.shape = "envnotmap" -> [acc EXCEPT !.exc = "AttributeError"]
         [] OTHER -> EnvChecks(doc.env_values, order, env, env_vars, acc)

\* Validator._validate_all_values: the files matching values-*.json, in the
\* order forder the directory lists them; korder[f] is the key order of f.
RECURSIVE AllValuesLoop(_, _, _, _, _)
AllValuesLoop(forder, i, korder, env_vars, acc) ==
    IF i > Len(forder) \/ acc.exc # NoExc THEN acc
    ELSE LET env == EnvOfStem(StemOf(forder[i]))
             order == IF env \in DOMAIN korder THEN korder[env] ELSE <<>>
         IN AllValuesLoop(forder, i + 1, korder, env_vars,
                          ValidateValuesForEnv(env, order, env_vars, acc))

PresentFiles == {e \in DOMAIN files : files[e].shape # "absent"}

KeyOrders == {ko \in [DOMAIN files -> UNION {Perms(DOMAIN files[e].env_values) : e \in DOMAIN files}] :
                 \A e \in DOMAIN files : ko[e] \in Perms(DOMAIN files[e].env_values)}

Outcome(env, r) ==
    /\ v_env' = env
    /\ errors' = r.errors
    /\ v_warnings' = r.warnings
    /\ v_exc' = r.exc
    /\ v_result' = IF r.exc # NoExc THEN "raised"
                   ELSE IF Len(r.errors) = 0 THEN "pass" ELSE "fail"
    /\ UNCHANGED <<schema_status, schema_version, schema, files, environ>>

\* The run of validate_all(env) for a non-empty env, the document listing its
\* keys in the order ko[env].
RunEnv(env, ko, env_vars) ==
    ValidateValuesForEnv(env, IF env \in DOMAIN ko THEN ko[env] ELSE <<>>, env_vars,
                         Acc(ValidateSchema(<<>>), <<>>, NoExc))

\* The run of validate_all with no env (None or the empty string), the
\* directory listing its files in the order forder.
RunAll(forder, ko, env_vars) ==
    AllValuesLoop(forder, 1, ko, env_vars, Acc(ValidateSchema(<<>>), <<>>, NoExc))

\* Validator.validate_all(env) with an environment given
ValidateEnv(env) ==
    \E ko \in KeyOrders : Outcome(env, RunEnv(env, ko, environ))

\* Validator.validate_all(None)
ValidateAllEnvs ==
    \E forder \in Perms(PresentFiles), ko \in KeyOrders :
        Outcome(NoEnv, RunAll(forder, ko, environ))

(***************************************************************************)
(* Inputs of the validator                                                 *)
(***************************************************************************)
SeqsUpTo(S, n) == UNION {[1..m -> S] : m \in 0..n}

Envs == {<<"dev">>}

\* The variables env references name.
EnvVarNames == {"DB_PW"}

\* Entries that exercise the schema-level checks.
SchemaCheckEntries ==
    {SchemaValue(k, p, td[1], TRUE, td[2], FALSE) :
        k \in {"k1", "k2"}, p \in {Pa, Pab, Pslash},
        td \in {<<"string", VNull>>, <<"string", VStr>>, <<"number", VBool>>}}

KeyPath(k) == IF k = "k1" THEN Pa ELSE Pab

\* Entries that exercise the per-environment checks.
ValueCheckEntries ==
    {SchemaValue("k1", KeyPath("k1"), c[1], c[2], c[3], c[4]) :
        c \in {<<"string", TRUE, VNull, FALSE>>, <<"number", FALSE, VNull, FALSE>>,
               <<"number", TRUE, VInt, FALSE>>, <<"string", TRUE, VNull, TRUE>>,
               <<"boolean", FALSE, VNull, TRUE>>, <<"object", TRUE, VNull, TRUE>>,
               <<"number", TRUE, VNull, TRUE>>}}
    \cup {SchemaValue("k2", KeyPath("k2"), c[1], c[2], c[3], c[4]) :
        c \in {<<"string", TRUE, VNull, FALSE>>, <<"number", TRUE, VInt, FALSE>>,
               <<"array", TRUE, VNull, TRUE>>}}

DocValues(k) ==
    CASE k = "k1" -> JsonValues \ {VFloat, VNumType}
      [] k = "k2" -> {VStr, VEnvRef, VVault}
      [] OTHER -> {VStr}

\* Documents with up to two keys; k1 takes every value when it is the only
\* key, and a string, an integer or a vault reference next to another key.
Mappings ==
    {m \in UNION {[S -> JsonValues] : S \in SUBSET {"k1", "k2", "k3"}} :
        /\ \A k \in DOMAIN m : m[k] \in DocValues(k)
        /\ Cardinality(DOMAIN m) <= 2
        /\ (Cardinality(DOMAIN m) = 2 /\ "k1" \in DOMAIN m) => m["k1"] \in {VStr, VInt, VVault}}

Docs == {Doc("keyed", m) : m \in Mappings}
        \cup {Doc(sh, EmptyMapping) : sh \in {"absent", "badjson", "notmap", "nokey", "envnotmap"}}

InitSchemaChecks ==
    /\ schema_status = "ok"
    /\ schema_version \in {"1.0", "2.0"}
    /\ schema \in SeqsUpTo(SchemaCheckEntries, MaxEntries)
    /\ files \in [Envs -> {Doc("nokey", EmptyMapping)}]

InitValueChecks ==
    /\ schema_status = "ok"
    /\ schema_version = "1.0"
    /\ schema \in SeqsUpTo(ValueCheckEntries, MaxEntries)
    /\ files \in [Envs -> Docs]

InitSchemaUnloadable ==
    /\ schema_status \in {"missing", "badjson", "invalid"}
    /\ schema_version = "1.0"
    /\ schema = <<>>
    /\ files \in [Envs -> {Doc(sh, EmptyMapping) : sh \in {"absent", "badjson", "notmap", "nokey"}}]

\* Names of environments with a values file; the second holds the text
\* "values-" itself (file values-values-dev.json).
EnvNames == {<<"dev">>, <<"values-", "dev">>}

\* os.environ.get gives None, "" or a non-empty string.
EnvVarStates == {"unset", "empty", "set"}

K1Entry(sensitive) == SchemaValue("k1", Pa, "string", TRUE, VNull, sensitive)

EnvSchemas == {<<>>, <<K1Entry(FALSE)>>, <<K1Entry(TRUE)>>}

EnvDocs ==
    {Doc("keyed", m) :
        m \in {EmptyMapping, [k \in {"k3"} |-> VStr]}
              \cup {[k \in {"k1"} |-> v] :
                       v \in {VStr, VInt, VEnvRef, VEnvEmptyName, VEnvSurrogate, VVault}}}
    \cup {Doc(sh, EmptyMapping) : sh \in {"absent", "badjson", "notmap", "nokey", "envnotmap"}}

\* Several environments, process environment included.
InitEnvs ==
    /\ \/ /\ schema_status = "ok"
          /\ schema_version \in {"1.0", "2.0"}
          /\ schema \in EnvSchemas
       \/ /\ schema_status \in {"missing", "badjson", "invalid"}
          /\ schema_version = "1.0"
          /\ schema = <<>>
    /\ files \in [EnvNames -> EnvDocs]
    /\ environ \in [EnvVarNames -> EnvVarStates]

(***************************************************************************)
(* The type-check rule on its own                                          *)
(***************************************************************************)
\* One call of Validator._validate_value_type
TypeCheck ==
    /\ ~tc_done
    /\ tc_result' = ValidateValueType(tc_value, tc_type)
    /\ tc_done' = TRUE
    /\ UNCHANGED <<tc_value, tc_type>>

(***************************************************************************)
(* GenerateCommand                                                         *)
(***************************************************************************)
\* Most paths a configuration declares.
MaxPaths == 3

NoValue == "<None>"
NoCall == "<no-call>"
DictNode == "<dict>"

\* A values tree maps the address of each node (the path segments that lead
\* to it from the root) to DictNode or to the string stored there.
NoTree == [a \in {} |-> DictNode]
EmptyTree == [a \in {<<>>} |-> DictNode]

IsPrefix(a, b) == Len(a) <= Len(b) /\ SubSeq(b, 1, Len(a)) = a

\* path.split(".")
RECURSIVE Split(_)
Split(path) ==
    IF \A i \in 1..Len(path) : path[i] # "." THEN <<path>>
    ELSE LET d == CHOOSE i \in 1..Len(path) :
                      path[i] = "." /\ \A j \in 1..(i - 1) : path[j] # "."
         IN <<SubSeq(path, 1, d - 1)>> \o Split(SubSeq(path, d + 1, Len(path)))

\* current_dict[part] = value: whatever was stored at the address, a whole
\* subtree included, is replaced.
SetLeaf(tree, addr, value) ==
    [a \in {b \in DOMAIN tree : ~IsPrefix(addr, b)} \cup {addr} |->
        IF a = addr THEN value ELSE tree[a]]

\* current_dict[part] = {}
AddDict(tree, addr) ==
    [a \in DOMAIN tree \cup {addr} |-> IF a = addr THEN DictNode ELSE tree[a]]

\* `for i, part in enumerate(path_parts)` from part i on, current_dict being
\* the node at address current.  Once current_dict is a string, the
\* membership test, the indexing or the item assignment raises TypeError.
RECURSIVE PartsLoop(_, _, _, _, _)
PartsLoop(tree, parts, i, current, value) ==
    IF tree[current] # DictNode THEN [tree |-> tree, exc |-> "TypeError"]
    ELSE LET child == Append(current, parts[i])
         IN IF i = Len(parts)
            THEN [tree |-> SetLeaf(tree, child, value), exc |-> NoExc]
            ELSE PartsLoop(IF child \notin DOMAIN tree THEN AddDict(tree, child) ELSE tree,
                           parts, i + 1, child, value)

\* PathData: the path, metadata.required and the value stored per deployment.
PathData(path, required, values) == [path |-> path, required |-> required, values |-> values]

\* HelmValuesConfig.get_value(path, deployment, resolve=True)
GetValue(pd, deployment) ==
    IF deployment \in DOMAIN pd.values THEN pd.values[deployment] ELSE NoValue

\* Mutant of the loop body: the nested dictionaries are created before the
\* value is looked at, and only the leaf assignment is skipped for None.
GenStepEagerDicts(acc, pd, deployment) ==
    LET value == GetValue(pd, deployment)
        parts == Split(pd.path)
    IN IF value = NoValue /\ pd.required
       THEN [acc EXCEPT !.missing = Append(@, pd.path)]
       ELSE IF value = NoValue
            THEN IF Len(parts) = 1 THEN acc
                 ELSE LET r == PartsLoop(acc.tree, SubSeq(parts, 1, Len(parts) - 1), 1, <<>>, DictNode)
                      IN IF r.exc # NoExc THEN acc ELSE [acc EXCEPT !.tree = r.tree]
            ELSE LET r == PartsLoop(acc.tree, parts, 1, <<>>, value)
                 IN [acc EXCEPT !.tree = r.tree, !.exc = r.exc]

\* The body of `for path in config._path_map.keys()`.
GenStep(acc, pd, deployment) ==
    LET value == GetValue(pd, deployment)
    IN IF value = NoValue /\ pd.required
       THEN [acc EXCEPT !.missing = Append(@, pd.path)]
       ELSE IF value = NoValue THEN acc
            ELSE LET r == PartsLoop(acc.tree, Split(pd.path), 1, <<>>, value)
                 IN [acc EXCEPT !.tree = r.tree, !.exc = r.exc]

RECURSIVE GenLoop(_, _, _)
GenLoop(i, deployment, acc) ==
    IF i > Len(path_map) \/ acc.exc # NoExc THEN acc
    ELSE GenLoop(i + 1, deployment, GenStep(acc, path_map[i], deployment))

\* GenerateCommand._generate_values_dict
GenerateValuesDict(deployment) ==
    LET acc == GenLoop(1, deployment, [tree |-> EmptyTree, missing |-> <<>>, exc |-> NoExc])
    IN IF acc.exc # NoExc THEN [tree |-> NoTree, missing |-> <<>>, exc |-> acc.exc]
       ELSE IF acc.missing # <<>>
            THEN [tree |-> NoTree, missing |-> acc.missing, exc |-> "ValueError: Missing required values"]
            ELSE [tree |-> acc.tree, missing |-> <<>>, exc |-> NoExc]

\* Mutant of the write: the file is written whatever _generate_values_dict
\* did, with the empty mapping when it raised.
ValuesFileAfterWriteAlways(r, file) == IF r.exc = NoExc THEN r.tree ELSE EmptyTree

\* Lines 53-61 of run: the values file once _generate_values_dict has
\* returned r or raised; open(file_path, "w") is reached only when it returned.
ValuesFileAfter(r, file) == IF r.exc = NoExc THEN r.tree ELSE file

\* What run does to everything but the configuration it was handed.
RunEffects(loaded, deployment) ==
    /\ g_loaded' = loaded
    /\ g_deployment' = deployment
    /\ IF ~loaded
       THEN /\ g_exc' = "ValueError: Configuration not loaded"
            /\ g_missing' = <<>> /\ g_tree' = NoTree /\ UNCHANGED <<g_file, g_outdir>>
       ELSE IF deployment = ""
       THEN /\ g_exc' = "ValueError: Deployment cannot be empty"
            /\ g_missing' = <<>> /\ g_tree' = NoTree /\ UNCHANGED <<g_file, g_outdir>>
       ELSE IF deployment \notin deployments
       THEN /\ g_exc' = "KeyError: Deployment not found"
            /\ g_missing' = <<>> /\ g_tree' = NoTree /\ UNCHANGED <<g_file, g_outdir>>
       ELSE LET r == GenerateValuesDict(deployment)
            IN /\ g_outdir' = TRUE
               /\ g_exc' = r.exc
               /\ g_missing' = r.missing
               /\ g_tree' = r.tree
               /\ g_file' = ValuesFileAfter(r, g_file)

\* Mutant of run: reading a value takes it out of the configuration
\* (values.pop(deployment) in place of values.get(deployment)).
GenerateConsuming(loaded, deployment) ==
    /\ RunEffects(loaded, deployment)
    /\ path_map' = [i \in DOMAIN path_map |->
                       [path_map[i] EXCEPT !.values =
                           [d \in DOMAIN @ \ {deployment} |-> @[d]]]]
    /\ UNCHANGED deployments

\* GenerateCommand.run(config, deployment=...); loaded is `config is not None`.
\* The configuration is only read.
Generate(loaded, deployment) ==
    /\ RunEffects(loaded, deployment)
    /\ UNCHANGED <<path_map, deployments>>

(***************************************************************************)
(* BaseCommand: execute under the lock file                                *)
(***************************************************************************)
\* Processes running a command in the same directory.
MaxProcs == 2

\* Revisions of helm-values.json a command starts from.
MaxSaves == 2

Procs == 1..MaxProcs

NoProc == 0
None == "<None>"
Fd == "<fd>"

\* skip_config_load and what run does: "init" (InitCommand: create the
\* file), "write" (set_value and the like: change the configuration and
\* save_config), "read" (generate), "raise" (an argument is rejected).
Command(skip, kind) == [skip_config_load |-> skip, kind |-> kind]

Commands ==
    {Command(TRUE, "init"), Command(FALSE, "write"), Command(FALSE, "read"),
     Command(FALSE, "raise")}

NoCommand == Command(FALSE, "none")

\* helm-values.json and the configuration read from it.  Revision n is the
\* configuration after n changes.
ConfigDoc(state, rev) == [state |-> state, rev |-> rev]

AbsentFile == ConfigDoc("absent", 0)
BadJsonFile == ConfigDoc("badjson", 0)
NoConfig == ConfigDoc("none", 0)
Revision(n) == ConfigDoc("ok", n)

\* A process calls execute() on a new command object.
Execute(p, c) ==
    /\ pc[p] \in {"idle", "done"}
    /\ c.kind = "write" => config_file.rev < MaxSaves
    /\ pc' = [pc EXCEPT ![p] = "open"]
    /\ command' = [command EXCEPT ![p] = c]
    /\ config' = [config EXCEPT ![p] = NoConfig]
    /\ x_exc' = [x_exc EXCEPT ![p] = NoExc]
    /\ UNCHANGED <<lock_fd, lock_file, flock_owner, config_file>>

\* acquire_lock, line 98: os.open(self.lock_file, os.O_CREAT | os.O_RDWR)
OpenLockFile(p) ==
    /\ pc[p] = "open"
    /\ lock_file' = TRUE
    /\ lock_fd' = [lock_fd EXCEPT ![p] = Fd]
    /\ pc' = [pc EXCEPT ![p] = "flock"]
    /\ UNCHANGED <<command, flock_owner, config_file, config, x_exc>>

\* Mutant of the refusal: IOError is raised with the descriptor left open
\* in _lock_fd.
LockRefusedDescriptorOpen(p) ==
    /\ x_exc' = [x_exc EXCEPT ![p] = "IOError"]
    /\ pc' = [pc EXCEPT ![p] = "finally"]
    /\ UNCHANGED <<lock_fd, flock_owner>>

\* acquire_lock, lines 101-106: the lock is held through another
\* descriptor; os.close(fd), _lock_fd = None, and IOError("Unable to acquire
\* lock. Another command may be running.") is raised.
LockRefused(p) ==
    /\ lock_fd' = [lock_fd EXCEPT ![p] = None]
    /\ x_exc' = [x_exc EXCEPT ![p] = "IOError"]
    /\ pc' = [pc EXCEPT ![p] = "finally"]
    /\ UNCHANGED flock_owner

\* Mutant of the lock request: it is granted whoever holds the lock
\* (a shared lock in place of the exclusive one).
FlockAlwaysGranted(p) ==
    /\ pc[p] = "flock"
    /\ flock_owner' = p
    /\ pc' = [pc EXCEPT ![p] = "load"]
    /\ UNCHANGED <<command, lock_fd, lock_file, config_file, config, x_exc>>

\* acquire_lock, lines 99-106: fcntl.flock(fd, LOCK_EX | LOCK_NB); when
\* another descriptor holds the lock it fails at once, the descriptor is
\* closed and IOError raised.
Flock(p) ==
    /\ pc[p] = "flock"
    /\ IF flock_owner = NoProc
       THEN /\ flock_owner' = p
            /\ pc' = [pc EXCEPT ![p] = "load"]
            /\ UNCHANGED <<lock_fd, x_exc>>
       ELSE LockRefused(p)
    /\ UNCHANGED <<command, lock_file, config_file, config>>

\* execute, lines 137-139: load_config unless skip_config_load
LoadConfig(p) ==
    /\ pc[p] = "load"
    /\ IF command[p].skip_config_load
       THEN /\ pc' = [pc EXCEPT ![p] = "run"]
            /\ UNCHANGED <<config, x_exc>>
       ELSE IF config_file.state # "ok"
       THEN /\ x_exc' = [x_exc EXCEPT ![p] =
                            IF config_file = AbsentFile THEN "FileNotFoundError"
                            ELSE "JSONDecodeError"]
            /\ pc' = [pc EXCEPT ![p] = "finally"]
            /\ UNCHANGED config
       ELSE /\ config' = [config EXCEPT ![p] = config_file]
            /\ pc' = [pc EXCEPT ![p] = "run"]
            /\ UNCHANGED x_exc
    /\ UNCHANGED <<command, lock_fd, lock_file, flock_owner, config_file>>

\* execute, line 140: run(config=config, **kwargs), up to its save_config
Run(p) ==
    /\ pc[p] = "run"
    /\ CASE command[p].kind = "init" /\ config_file # AbsentFile ->
               /\ x_exc' = [x_exc EXCEPT ![p] = "FileExistsError"]
               /\ pc' = [pc EXCEPT ![p] = "finally"]
               /\ UNCHANGED config
         [] command[p].kind = "init" ->
               /\ config' = [config EXCEPT ![p] = Revision(0)]
               /\ pc' = [pc EXCEPT ![p] = "save"]
               /\ UNCHANGED x_exc
         [] command[p].kind = "write" ->
               /\ config' = [config EXCEPT ![p] = Revision(@.rev + 1)]
               /\ pc' = [pc EXCEPT ![p] = "save"]
               /\ UNCHANGED x_exc
         [] command[p].kind = "read" ->
               /\ pc' = [pc EXCEPT ![p] = "finally"]
               /\ UNCHANGED <<config, x_exc>>
         [] OTHER ->
               /\ x_exc' = [x_exc EXCEPT ![p] = "ValueError"]
               /\ pc' = [pc EXCEPT ![p] = "finally"]
               /\ UNCHANGED config
    /\ UNCHANGED <<command, lock_fd, lock_file, flock_owner, config_file>>

\* Mutant of save_config: the file is opened for writing before
\* config.validate() is called, so a rejected configuration leaves it empty.
SaveConfigOpenFirst(p, valid) ==
    /\ pc[p] = "save"
    /\ IF valid
       THEN config_file' = config[p] /\ UNCHANGED x_exc
       ELSE x_exc' = [x_exc EXCEPT ![p] = "ValidationError"] /\ config_file' = BadJsonFile
    /\ pc' = [pc EXCEPT ![p] = "finally"]
    /\ UNCHANGED <<command, lock_fd, lock_file, flock_owner, config>>

\* save_config, called by run: config.validate() raises, or the
\* configuration replaces the file
SaveConfig(p, valid) ==
    /\ pc[p] = "save"
    /\ IF valid
       THEN config_file' = config[p] /\ UNCHANGED x_exc
       ELSE x_exc' = [x_exc EXCEPT ![p] = "ValidationError"] /\ UNCHANGED config_file
    /\ pc' = [pc EXCEPT ![p] = "finally"]
    /\ UNCHANGED <<command, lock_fd, lock_file, flock_owner, config>>

\* Mutant of execute: release_lock follows run in the try block, with no
\* finally clause, so it is skipped when an exception propagates.
ReleaseLockNoFinally(p) ==
    /\ pc[p] = "finally"
    /\ IF lock_fd[p] # None /\ x_exc[p] = NoExc
       THEN /\ flock_owner' = IF flock_owner = p THEN NoProc ELSE flock_owner
            /\ lock_fd' = [lock_fd EXCEPT ![p] = None]
       ELSE UNCHANGED <<flock_owner, lock_fd>>
    /\ pc' = [pc EXCEPT ![p] = "done"]
    /\ UNCHANGED <<command, lock_file, config_file, config, x_exc>>

\* execute, lines 142-143, and release_lock: flock(fd, LOCK_UN), close, and
\* _lock_fd = None, when _lock_fd is not None; then execute returns or
\* lets the exception propagate.
ReleaseLock(p) ==
    /\ pc[p] = "finally"
    /\ IF lock_fd[p] # None
       THEN /\ flock_owner' = IF flock_owner = p THEN NoProc ELSE flock_owner
            /\ lock_fd' = [lock_fd EXCEPT ![p] = None]
       ELSE UNCHANGED <<flock_owner, lock_fd>>
    /\ pc' = [pc EXCEPT ![p] = "done"]
    /\ UNCHANGED <<command, lock_file, config_file, config, x_exc>>

(***************************************************************************)
(* SimpleValueBackend                                                      *)
(***************************************************************************)
\* Values a backend may hold at a time.
MaxStored == 2

\* _get_storage_key: f"{path}:{environment}".  Paths and environments are
\* sequences of tokens, ":" being a token of its own.
GetStorageKey(path, environment) == path \o <<":">> \o environment

NoValueFound == JsonValue("ValueError: No value found", NoField, NoField)

BackendCall(op, path, environment) == [op |-> op, path |-> path, environment |-> environment]

NoBackendCall == BackendCall("none", <<>>, <<>>)

\* SimpleValueBackend.get_value on the storage st: the value, or the
\* ValueError raised when the key is not in it.
BackendGetValue(st, path, environment) ==
    LET key == GetStorageKey(path, environment)
    IN IF key \notin DOMAIN st THEN NoValueFound ELSE st[key]

\* SimpleValueBackend.set_value
BackendSetValue(path, environment, value) ==
    LET key == GetStorageKey(path, environment)
    IN /\ b_call' = BackendCall("set_value", path, environment)
       /\ IF ~IsInstance(value, {"str", "int", "float", "bool", "NoneType"})
          THEN b_exc' = "ValueError" /\ UNCHANGED storage
          ELSE /\ key \notin DOMAIN storage => Cardinality(DOMAIN storage) < MaxStored
               /\ b_exc' = NoExc
               /\ storage' = [k \in DOMAIN storage \cup {key} |->
                                 IF k = key THEN value ELSE storage[k]]

\* SimpleValueBackend.remove_value
BackendRemoveValue(path, environment) ==
    LET key == GetStorageKey(path, environment)
    IN /\ b_call' = BackendCall("remove_value", path, environment)
       /\ IF key \notin DOMAIN storage
          THEN b_exc' = "ValueError" /\ UNCHANGED storage
          ELSE /\ b_exc' = NoExc
               /\ storage' = [k \in DOMAIN storage \ {key} |-> storage[k]]

\* Paths and environments handed to the backend.
BackendPaths == {<<"app">>, <<"app", ":", "db">>}
BackendEnvs == {<<"dev">>, <<"db", ":", "dev">>}
BackendValues == {VStr, VInt, VList}

(***************************************************************************)
(* ValidationError.__str__                                                 *)
(***************************************************************************)
NoStr == <<"<not-taken>">>

\* self.message, as the tokens formatted into it.
Message(e) == <<e.kind, e.key>> \o e.path \o <<e.detail>>

\* ValidationError.__str__: the returned string, token by token.  The
\* f-string of the first branch starts with "\\[", a backslash and a bracket.
ErrorStr(e) ==
    IF e.env # <<>>
    THEN <<"\\", "[">> \o e.env \o <<"]", " ", e.context, ":", " ">> \o Message(e)
    ELSE <<e.context, ":", " ">> \o Message(e)

\* str(error)
StrOfError ==
    /\ ve_str = NoStr
    /\ ve_str' = ErrorStr(ve_error)
    /\ UNCHANGED ve_error

ErrorSamples ==
    {ValidationError(c, k, key, NoPath, NoDetail, env) :
        c \in {"Schema", "Values"},
        k \in {"Duplicate key", "Invalid type", "Unknown key", "Type mismatch",
               "Missing required value", "Invalid secret structure"},
        key \in {"k1", "k2", NoKey},
        env \in {NoEnv, <<"dev">>, <<"prod">>}}

(***************************************************************************)
(* parse_value_by_type                                                     *)
(***************************************************************************)
\* The strings typed at the prompts, and what Python makes of each.
InputStrings ==
    {"abc", "12", "0", "1.5", "12.", "1.5.2", "true", "Yes", "[1, 2]", "{\"a\": 1}",
     "null", "\"x\"", "a, b", ""}

\* "." in value_str
HasDot(value_str) == value_str \in {"1.5", "12.", "1.5.2"}

\* int(value_str) returns (it raises ValueError otherwise)
IntParses(value_str) == value_str \in {"12", "0"}

\* float(value_str) returns
FloatParses(value_str) == value_str \in {"12", "0", "1.5", "12."}

\* value_str.lower()
Lower(value_str) == IF value_str = "Yes" THEN "yes" ELSE value_str

VPlainDict == JsonValue("dict", NoField, NoField)

JSONDecodeError == JsonValue("JSONDecodeError", NoField, NoField)

\* json.loads(value_str): the value, whatever its JSON type, or the error.
JsonLoads(value_str) ==
    CASE value_str \in {"12", "0"} -> VInt
      [] value_str = "1.5" -> VFloat
      [] value_str = "true" -> VBool
      [] value_str = "null" -> VNull
      [] value_str = "\"x\"" -> VStr
      [] value_str = "[1, 2]" -> VList
      [] value_str = "{\"a\": 1}" -> VPlainDict
      [] OTHER -> JSONDecodeError

Returned(value) == [outcome |-> "returned", value |-> value]
BadParameter == [outcome |-> "BadParameter", value |-> VNull]
NotParsed == [outcome |-> "none", value |-> VNull]

\* parse_value_by_type(value_str, value_type)
ParseValueByType(value_str, value_type) ==
    CASE value_type = "string" -> Returned(VStr)
      [] value_type = "number" ->
            IF HasDot(value_str)
            THEN IF FloatParses(value_str) THEN Returned(VFloat) ELSE BadParameter
            ELSE IF IntParses(value_str) THEN Returned(VInt) ELSE BadParameter
      [] value_type = "boolean" ->
            IF Lower(value_str) \in {"true", "yes", "y", "1"} THEN Returned(VBool)
            ELSE IF Lower(value_str) \in {"false", "no", "n", "0"} THEN Returned(VBool)
            ELSE BadParameter
      [] value_type = "array" ->
            IF JsonLoads(value_str) # JSONDecodeError THEN Returned(JsonLoads(value_str))
            ELSE Returned(VList)
      [] value_type = "object" ->
            IF JsonLoads(value_str) # JSONDecodeError THEN Returned(JsonLoads(value_str))
            ELSE BadParameter
      [] OTHER -> Returned(VNull)

\* A call of parse_value_by_type
ParseValue ==
    /\ pv_result = NotParsed
    /\ pv_result' = ParseValueByType(pv_str, pv_type)
    /\ UNCHANGED <<pv_str, pv_type>>

(***************************************************************************)
(* validate_path_format                                                    *)
(***************************************************************************)
\* Longest path string checked.
MaxPathLen == 3

PathChars == {"a", ".", "-", "_", "/"}

\* s.replace(c, "") for a one-character c
Replace(s, c) == SelectSeq(s, LAMBDA x : x # c)

\* str.isalnum: false for the empty string
StrIsAlnum(s) == s # <<>> /\ \A i \in 1..Len(s) : IsAlnum(s[i])

\* utils.validate_path_format
ValidatePathFormat(path) ==
    IF path = <<>> THEN FALSE
    ELSE LET parts == Split(path)
         IN \A i \in 1..Len(parts) :
               parts[i] # <<>> => StrIsAlnum(Replace(Replace(parts[i], "-"), "_"))

Verdict(accepted) == IF accepted THEN "accept" ELSE "reject"

\* The path is put to both checks: validate_path_format, and the loop body
\* of _validate_schema on an entry with that path.
CheckPath ==
    /\ pf_editor = "none"
    /\ pf_editor' = Verdict(ValidatePathFormat(pf_path))
    /\ LET errs == EntryErrors(SchemaValue("k1", pf_path, "string", TRUE, VNull, FALSE),
                               {}, {})
       IN pf_validator' = Verdict(\A i \in 1..Len(errs) : errs[i] # ErrPathFormat(pf_path))
    /\ UNCHANGED pf_path

(***************************************************************************)
(* The schema and values commands                                          *)
(***************************************************************************)
\* values-<env>.json as the values commands see it: whether it exists and
\* the mapping json.load gives.
ValuesDocument(present, values) == [present |-> present, values |-> values]

NoDocument == ValuesDocument(FALSE, EmptyMapping)

\* utils.load_values: {} when the file is missing, else the whole document.
LoadValues(env) == saved_values[env].values

\* The name of an environment as a key of a document.
EnvKey(env) == IF Len(env) = 1 THEN env[1] ELSE "<compound-name>"

\* The items of a mapping value: its "type" and "name" fields, when present.
DictItems(value) ==
    LET field == [f \in {"type", "name"} |-> IF f = "type" THEN value.ty ELSE value.name]
    IN [f \in {x \in {"type", "name"} : field[x] # NoField} |->
           IF field[f] = NonString THEN VInt ELSE VStr]

\* The document save_values wrote, as _validate_values_for_env reads it:
\* json.load gives the mapping that was dumped, and values.get(env, {}) looks
\* the environment's name up among its keys.
DocOfSaved(values, env) ==
    IF EnvKey(env) \notin DOMAIN values THEN Doc("nokey", EmptyMapping)
    ELSE IF ~IsInstance(values[EnvKey(env)], {"dict"}) THEN Doc("envnotmap", EmptyMapping)
    ELSE Doc("keyed", DictItems(values[EnvKey(env)]))

\* utils.save_values: json.dump(values) to values-<env>.json
SaveValues(values, env) ==
    /\ saved_values' = [saved_values EXCEPT ![env] = ValuesDocument(TRUE, values)]
    /\ files' = [files EXCEPT ![env] = DocOfSaved(values, env)]

\* Mutant of the test: every key counts as new.
ValidateKeyUniqueAlways(entries, key) == TRUE

\* utils.validate_key_unique
ValidateKeyUnique(entries, key) == \A i \in 1..Len(entries) : entries[i].key # key

\* next((i for i, v in enumerate(schema.values) if v.key == key), None): the
\* set holding the first index of key, empty when there is none.
FirstIndex(entries, key) ==
    {i \in 1..Len(entries) :
        entries[i].key = key /\ \A j \in 1..(i - 1) : entries[j].key # key}

NoDefault == "<no default asked>"

\* schema add: the prompts are repeated until the key is non-empty and new,
\* the path passes validate_path_format, the type is one of the five and the
\* default parses; the entry is appended and the schema saved.
SchemaAdd(key, path, type, required, default_str, sensitive) ==
    /\ schema_status = "ok"
    /\ Len(schema) < MaxEntries
    /\ key # ""
    /\ ValidateKeyUnique(schema, key)
    /\ ValidatePathFormat(path)
    /\ type \in ValueTypes
    /\ default_str # NoDefault => ParseValueByType(default_str, type).outcome = "returned"
    /\ schema' = Append(schema,
                        SchemaValue(key, path, type, required,
                                    IF default_str = NoDefault THEN VNull
                                    ELSE ParseValueByType(default_str, type).value,
                                    sensitive))
    /\ UNCHANGED <<schema_status, schema_version, files, errors, v_env, v_exc, v_result,
                   environ, v_warnings, saved_values>>

\* schema update: the first entry with the key is changed in place.  The
\* key is not asked for; a changed path is checked by validate_path_format
\* alone; a changed type clears the default when clear is answered; a new
\* default is parsed for the type now current.
SchemaUpdate(key, path, type, clear, required, default_str, sensitive) ==
    /\ schema_status = "ok"
    /\ FirstIndex(schema, key) # {}
    /\ LET i == CHOOSE x \in FirstIndex(schema, key) : TRUE
           value == schema[i]
           kept == IF type # value.type /\ value.default # VNull /\ clear
                   THEN VNull ELSE value.default
       IN /\ path # value.path => ValidatePathFormat(path)
          /\ type # value.type => type \in ValueTypes
          /\ default_str # NoDefault =>
                ParseValueByType(default_str, type).outcome = "returned"
          /\ schema' = [schema EXCEPT ![i] =
                           SchemaValue(value.key, path, type, required,
                                       IF default_str = NoDefault THEN kept
                                       ELSE ParseValueByType(default_str, type).value,
                                       sensitive)]
    /\ UNCHANGED <<schema_status, schema_version, files, errors, v_env, v_exc, v_result,
                   environ, v_warnings, saved_values>>

\* schema remove: schema.values.pop(value_index) of the first entry with
\* the key.
SchemaRemove(key) ==
    /\ schema_status = "ok"
    /\ FirstIndex(schema, key) # {}
    /\ LET i == CHOOSE x \in FirstIndex(schema, key) : TRUE
       IN schema' = SubSeq(schema, 1, i - 1) \o SubSeq(schema, i + 1, Len(schema))
    /\ UNCHANGED <<schema_status, schema_version, files, errors, v_env, v_exc, v_result,
                   environ, v_warnings, saved_values>>

\* values set: refused for an undeclared key, for a sensitive entry and for
\* a string that does not parse; else values[key] = parsed_value is saved.
ValuesSet(key, value_str, env) ==
    /\ schema_status = "ok"
    /\ FirstIndex(schema, key) # {}
    /\ LET entry == schema[CHOOSE x \in FirstIndex(schema, key) : TRUE]
           parsed == ParseValueByType(value_str, entry.type)
           values == LoadValues(env)
       IN /\ ~entry.sensitive
          /\ parsed.outcome = "returned"
          /\ SaveValues([k \in DOMAIN values \cup {key} |->
                            IF k = key THEN parsed.value ELSE values[k]], env)
    /\ UNCHANGED <<schema_status, schema_version, schema, errors, v_env, v_exc, v_result,
                   environ, v_warnings>>

\* values set-secret: refused for an undeclared key; for an entry that is
\* not sensitive it goes on when the operator confirms; values[key] =
\* {"type": "env", "name": env_var_name} is saved.
ValuesSetSecret(key, env, env_var_name) ==
    /\ schema_status = "ok"
    /\ FirstIndex(schema, key) # {}
    /\ LET values == LoadValues(env)
       IN SaveValues([k \in DOMAIN values \cup {key} |->
                         IF k = key THEN JsonValue("dict", "env", env_var_name)
                         ELSE values[k]], env)
    /\ UNCHANGED <<schema_status, schema_version, schema, errors, v_env, v_exc, v_result,
                   environ, v_warnings>>

\* values remove: del values[key] of a key that is set, then save.
ValuesRemove(key, env) ==
    /\ key \in DOMAIN LoadValues(env)
    /\ LET values == LoadValues(env)
       IN SaveValues([k \in DOMAIN values \ {key} |-> values[k]], env)
    /\ UNCHANGED <<schema_status, schema_version, schema, errors, v_env, v_exc, v_result,
                   environ, v_warnings>>

\* What the operator types at the prompts.
EditKeys == {"k1", "k2"}
EditPaths == {Pa, Pab}
EditTypes == {"string", "number"}
EditStrings == {"12"}

(***************************************************************************)
(* Inputs of generation                                                    *)
(***************************************************************************)
Pabc == <<"a", ".", "b", ".", "c">>
Pb == <<"b">>

GenPaths == {Pa, Pab, Pabc, Pb}

Deployments == {"dev"}

StoredValues == {"x", "y"}

PathDatas ==
    {PathData(p, r, v) : p \in GenPaths, r \in BOOLEAN,
                         v \in UNION {[D -> StoredValues] : D \in SUBSET Deployments}}

(***************************************************************************)
(* Specifications                                                          *)
(***************************************************************************)
ValidatorIdle ==
    /\ schema_status = "ok" /\ schema_version = "1.0" /\ schema = <<>>
    /\ files = [e \in Envs |-> AbsentDoc]
    /\ errors = <<>> /\ v_env = NoEnv /\ v_exc = NoExc /\ v_result = "none"
    /\ environ = [n \in EnvVarNames |-> "unset"] /\ v_warnings = <<>>

TypeCheckIdle ==
    /\ tc_value = VNull /\ tc_type = "string" /\ tc_done = FALSE /\ tc_result = FALSE

GenerateIdle ==
    /\ path_map = <<>> /\ deployments = Deployments
    /\ g_loaded = FALSE /\ g_deployment = NoCall /\ g_exc = NoExc /\ g_missing = <<>>
    /\ g_tree = NoTree /\ g_file = NoTree /\ g_outdir = FALSE

LockIdle ==
    /\ pc = [p \in Procs |-> "idle"]
    /\ command = [p \in Procs |-> NoCommand]
    /\ lock_fd = [p \in Procs |-> None]
    /\ lock_file = FALSE
    /\ flock_owner = NoProc
    /\ config_file = AbsentFile
    /\ config = [p \in Procs |-> NoConfig]
    /\ x_exc = [p \in Procs |-> NoExc]

EmptyStorage == [k \in {} |-> VNull]

BackendIdle == storage = EmptyStorage /\ b_call = NoBackendCall /\ b_exc = NoExc

ErrorStrIdle == ve_error = ErrVersion("1.0") /\ ve_str = NoStr

ParseIdle == pv_str = "" /\ pv_type = "string" /\ pv_result = NotParsed

EditIdle == saved_values = [e \in Envs |-> NoDocument]

PathFormatIdle == pf_path = <<>> /\ pf_editor = "none" /\ pf_validator = "none"

UtilitiesIdle ==
    /\ BackendIdle
    /\ ErrorStrIdle
    /\ ParseIdle
    /\ PathFormatIdle
    /\ EditIdle

\* Validation of one schema document and one values directory.
Init ==
    /\ InitSchemaChecks \/ InitValueChecks \/ InitSchemaUnloadable
    /\ errors = <<>>
    /\ v_env = NoEnv
    /\ v_exc = NoExc
    /\ v_result = "none"
    /\ environ = [n \in EnvVarNames |-> "unset"]
    /\ v_warnings = <<>>
    /\ TypeCheckIdle
    /\ GenerateIdle
    /\ LockIdle
    /\ UtilitiesIdle

Next ==
    \/ \E env \in Envs : ValidateEnv(env) /\ UNCHANGED <<tcvars, gvars, lvars, uvars>>
    \/ ValidateAllEnvs /\ UNCHANGED <<tcvars, gvars, lvars, uvars>>

Spec == Init /\ [][Next]_vars

\* Validation of a values directory with several environments.
InitValidateEnvs ==
    /\ InitEnvs
    /\ errors = <<>>
    /\ v_env = NoEnv
    /\ v_exc = NoExc
    /\ v_result = "none"
    /\ v_warnings = <<>>
    /\ TypeCheckIdle
    /\ GenerateIdle
    /\ LockIdle
    /\ UtilitiesIdle

NextValidateEnvs ==
    \/ \E env \in EnvNames \cup {<<"prod">>} : ValidateEnv(env) /\ UNCHANGED <<tcvars, gvars, lvars, uvars>>
    \/ ValidateAllEnvs /\ UNCHANGED <<tcvars, gvars, lvars, uvars>>

SpecValidateEnvs == InitValidateEnvs /\ [][NextValidateEnvs]_vars

\* The type-check rule applied to one value and one type name.
InitTypeCheck ==
    /\ tc_value \in JsonValues
    /\ tc_type \in ValueTypes \cup {"integer", "String", "null"}
    /\ tc_done = FALSE
    /\ tc_result = FALSE
    /\ ValidatorIdle
    /\ GenerateIdle
    /\ LockIdle
    /\ UtilitiesIdle

NextTypeCheck == TypeCheck /\ UNCHANGED <<vvars, gvars, lvars, uvars>>

SpecTypeCheck == InitTypeCheck /\ [][NextTypeCheck]_vars

\* Generation from one configuration.
InitGenerate ==
    /\ path_map \in {pm \in SeqsUpTo(PathDatas, MaxPaths) :
                        \A i, j \in DOMAIN pm : pm[i].path = pm[j].path => i = j}
    /\ deployments = Deployments
    /\ g_loaded = FALSE /\ g_deployment = NoCall /\ g_exc = NoExc /\ g_missing = <<>>
    /\ g_tree = NoTree /\ g_file = NoTree /\ g_outdir = FALSE
    /\ ValidatorIdle
    /\ TypeCheckIdle
    /\ LockIdle
    /\ UtilitiesIdle

\* The calls of run: with a configuration and a declared, an empty or an
\* undeclared deployment, and with no configuration.
GenerateCalls ==
    {<<TRUE, d>> : d \in Deployments \cup {"", "qa"}} \cup {<<FALSE, d>> : d \in Deployments}

NextGenerate ==
    \E call \in GenerateCalls :
        Generate(call[1], call[2]) /\ UNCHANGED <<vvars, tcvars, lvars, uvars>>

SpecGenerate == InitGenerate /\ [][NextGenerate]_vars

\* Documents on which both validation and generation are run.
FrameDocs ==
    {Doc("keyed", [k \in {"k1"} |-> v]) : v \in {VStr, VInt}}
    \cup {Doc(sh, EmptyMapping) : sh \in {"absent", "badjson", "notmap"}}

FramePathDatas ==
    {PathData(Pa, TRUE, [d \in {} |-> "x"]),
     PathData(Pa, FALSE, [d \in Deployments |-> "x"]),
     PathData(Pab, FALSE, [d \in Deployments |-> "x"])}

InitFrame ==
    /\ \/ schema_status = "ok" /\ schema \in EnvSchemas
       \/ schema_status = "missing" /\ schema = <<>>
    /\ schema_version = "1.0"
    /\ files \in [EnvNames -> FrameDocs]
    /\ environ = [n \in EnvVarNames |-> "unset"]
    /\ errors = <<>> /\ v_env = NoEnv /\ v_exc = NoExc /\ v_result = "none"
    /\ v_warnings = <<>>
    /\ path_map \in {pm \in SeqsUpTo(FramePathDatas, 2) :
                        \A i, j \in DOMAIN pm : pm[i].path = pm[j].path => i = j}
    /\ deployments = Deployments
    /\ g_loaded = FALSE /\ g_deployment = NoCall /\ g_exc = NoExc /\ g_missing = <<>>
    /\ g_tree = NoTree /\ g_file = NoTree /\ g_outdir = FALSE
    /\ TypeCheckIdle
    /\ LockIdle
    /\ UtilitiesIdle

\* Validation and generation, in any order, over the same documents.
NextFrame == NextValidateEnvs \/ NextGenerate

SpecFrame == InitFrame /\ [][NextFrame]_vars

\* Commands of several processes in one directory.
InitLock ==
    /\ pc = [p \in Procs |-> "idle"]
    /\ command = [p \in Procs |-> NoCommand]
    /\ lock_fd = [p \in Procs |-> None]
    /\ lock_file \in BOOLEAN
    /\ flock_owner = NoProc
    /\ config_file \in {AbsentFile, BadJsonFile, Revision(0)}
    /\ config = [p \in Procs |-> NoConfig]
    /\ x_exc = [p \in Procs |-> NoExc]
    /\ ValidatorIdle
    /\ TypeCheckIdle
    /\ GenerateIdle
    /\ UtilitiesIdle

NextLock ==
    \E p \in Procs :
        /\ \/ \E c \in Commands : Execute(p, c)
           \/ OpenLockFile(p)
           \/ Flock(p)
           \/ LoadConfig(p)
           \/ Run(p)
           \/ \E valid \in BOOLEAN : SaveConfig(p, valid)
           \/ ReleaseLock(p)
        /\ UNCHANGED <<vvars, tcvars, gvars, uvars>>

SpecLock == InitLock /\ [][NextLock]_vars

\* Calls on one SimpleValueBackend.
InitBackend ==
    /\ BackendIdle
    /\ ValidatorIdle /\ TypeCheckIdle /\ GenerateIdle /\ LockIdle
    /\ ErrorStrIdle /\ ParseIdle /\ PathFormatIdle /\ EditIdle

BackendOnly == UNCHANGED <<vvars, tcvars, gvars, lvars, svars, pvars, fvars, evars>>

NextBackend ==
    \/ \E path \in BackendPaths, environment \in BackendEnvs, value \in BackendValues :
          BackendSetValue(path, environment, value) /\ BackendOnly
    \/ \E path \in BackendPaths, environment \in BackendEnvs :
          BackendRemoveValue(path, environment) /\ BackendOnly

SpecBackend == InitBackend /\ [][NextBackend]_vars

\* The string form of validation errors.
InitErrorStr ==
    /\ ve_error \in ErrorSamples /\ ve_str = NoStr
    /\ ValidatorIdle /\ TypeCheckIdle /\ GenerateIdle /\ LockIdle
    /\ BackendIdle /\ ParseIdle /\ PathFormatIdle /\ EditIdle

NextErrorStr == StrOfError /\ UNCHANGED <<vvars, tcvars, gvars, lvars, bvars, pvars, fvars, evars>>

SpecErrorStr == InitErrorStr /\ [][NextErrorStr]_vars

\* parse_value_by_type on every input and declared type.
InitParse ==
    /\ pv_str \in InputStrings /\ pv_type \in ValueTypes /\ pv_result = NotParsed
    /\ ValidatorIdle /\ TypeCheckIdle /\ GenerateIdle /\ LockIdle
    /\ BackendIdle /\ ErrorStrIdle /\ PathFormatIdle /\ EditIdle

NextParse == ParseValue /\ UNCHANGED <<vvars, tcvars, gvars, lvars, bvars, svars, fvars, evars>>

SpecParse == InitParse /\ [][NextParse]_vars

\* The two path checks on every short string.
InitPathFormat ==
    /\ pf_path \in SeqsUpTo(PathChars, MaxPathLen)
    /\ pf_editor = "none" /\ pf_validator = "none"
    /\ ValidatorIdle /\ TypeCheckIdle /\ GenerateIdle /\ LockIdle
    /\ BackendIdle /\ ErrorStrIdle /\ ParseIdle /\ EditIdle

NextPathFormat == CheckPath /\ UNCHANGED <<vvars, tcvars, gvars, lvars, bvars, svars, pvars, evars>>

SpecPathFormat == InitPathFormat /\ [][NextPathFormat]_vars

\* Editing sessions: schema and values commands from the empty schema init
\* wrote, with no values document.
InitEdit ==
    /\ ValidatorIdle
    /\ EditIdle
    /\ TypeCheckIdle /\ GenerateIdle /\ LockIdle
    /\ BackendIdle /\ ErrorStrIdle /\ ParseIdle /\ PathFormatIdle

EditorOnly == UNCHANGED <<tcvars, gvars, lvars, bvars, svars, pvars, fvars>>

NextEdit ==
    \/ \E key \in EditKeys, path \in EditPaths, type \in EditTypes,
          required \in BOOLEAN, sensitive \in BOOLEAN :
          SchemaAdd(key, path, type, required, NoDefault, sensitive) /\ EditorOnly
    \/ \E key \in EditKeys, path \in EditPaths, type \in EditTypes,
          required \in BOOLEAN, sensitive \in BOOLEAN :
          SchemaUpdate(key, path, type, TRUE, required, NoDefault, sensitive) /\ EditorOnly
    \/ \E key \in EditKeys : SchemaRemove(key) /\ EditorOnly
    \/ \E key \in EditKeys, value_str \in EditStrings, env \in Envs :
          ValuesSet(key, value_str, env) /\ EditorOnly
    \/ \E key \in EditKeys, env \in Envs, env_var_name \in EnvVarNames :
          ValuesSetSecret(key, env, env_var_name) /\ EditorOnly
    \/ \E key \in EditKeys, env \in Envs : ValuesRemove(key, env) /\ EditorOnly

SpecEdit == InitEdit /\ [][NextEdit]_vars

(***************************************************************************)
(* Properties of the validator                                             *)
(***************************************************************************)
Count(seq, e) == Cardinality({i \in DOMAIN seq : seq[i] = e})

\* The text of an error: its template and what is formatted into it.
Msg(e) == <<e.kind, e.key, e.path, e.detail>>

CountMsg(seq, m) == Cardinality({i \in DOMAIN seq : Msg(seq[i]) = m})

Validated == v_result \in {"pass", "fail"}

\* The environments the last call ran the per-environment checks for.
EnvsRequested ==
    IF v_env = NoEnv THEN {EnvOfStem(StemOf(f)) : f \in PresentFiles} ELSE {v_env}

\* The environments whose mapping the last call checked against the schema.
EnvsChecked ==
    {env \in EnvsRequested :
        Validated /\ schema_status = "ok" /\ FileOf(env).shape \in {"keyed", "nokey"}}

\* values.get(env, {})
EnvMapping(env) == FileOf(env).env_values

DistinctKeys == \A i, j \in 1..Len(schema) : schema[i].key = schema[j].key => i = j

Declared(k) == {i \in 1..Len(schema) : schema[i].key = k}

\* The type-check rule of the specification, on the kind of the value.
TypeRule(value, type) ==
    \/ type = "string" /\ value.kind = "str"
    \/ type = "number" /\ value.kind \in {"int", "float"}
    \/ type = "boolean" /\ value.kind = "bool"
    \/ type = "array" /\ value.kind = "list"
    \/ type = "object" /\ value.kind = "dict"

WellFormedRef(value) ==
    value.kind = "dict" /\ value.ty = "env" /\ value.name \notin {NoField, NonString}

OtherTypedRef(value) ==
    value.kind = "dict" /\ value.ty \notin {NoField, "env"}

Item(src, idx, env, key, msg) ==
    [src |-> src, idx |-> idx, env |-> env, key |-> key, msg |-> msg]

\* Every violation the documents contain, one item per (check, place).
Violations ==
    {Item("version", 0, NoEnv, NoKey, Msg(ErrVersion(schema_version))) :
        x \in {y \in {1} : schema_version # "1.0"}}
    \cup {Item("dupkey", i, NoEnv, NoKey, Msg(ErrDupKey(schema[i].key))) :
        i \in {n \in 1..Len(schema) : \E j \in 1..(n - 1) : schema[j].key = schema[n].key}}
    \cup {Item("duppath", i, NoEnv, NoKey, Msg(ErrDupPath(schema[i].path))) :
        i \in {n \in 1..Len(schema) : \E j \in 1..(n - 1) : schema[j].path = schema[n].path}}
    \cup {Item("format", i, NoEnv, NoKey, Msg(ErrPathFormat(schema[i].path))) :
        i \in {n \in 1..Len(schema) :
                 \E c \in 1..Len(schema[n].path) :
                     schema[n].path[c] \notin AlnumChars \cup {".", "-", "_"}}}
    \cup {Item("default", i, NoEnv, NoKey, Msg(ErrDefault(schema[i].key))) :
        i \in {n \in 1..Len(schema) :
                 schema[n].default # VNull /\ ~TypeRule(schema[n].default, schema[n].type)}}
    \cup UNION {
          {Item("unknown", 0, env, k, Msg(ErrUnknownKey(k, env))) :
              k \in {d \in DOMAIN EnvMapping(env) : Declared(d) = {}}}
          \cup {Item("secret", 0, env, k, Msg(ErrSecretStructure(k, env))) :
              k \in {d \in DOMAIN EnvMapping(env) :
                       /\ Cardinality(Declared(d)) = 1
                       /\ \A i \in Declared(d) : schema[i].sensitive
                       /\ ~WellFormedRef(EnvMapping(env)[d])
                       /\ ~OtherTypedRef(EnvMapping(env)[d])}}
          \cup {Item("unsupported", 0, env, k, Msg(ErrUnsupportedSecret(EnvMapping(env)[k].ty))) :
              k \in {d \in DOMAIN EnvMapping(env) :
                       /\ Cardinality(Declared(d)) = 1
                       /\ \A i \in Declared(d) : schema[i].sensitive
                       /\ OtherTypedRef(EnvMapping(env)[d])}}
          \cup UNION {{Item("type", i, env, k, Msg(ErrTypeMismatch(k, schema[i].type, env))) :
                          i \in {n \in Declared(k) :
                                   /\ ~schema[n].sensitive
                                   /\ ~TypeRule(EnvMapping(env)[k], schema[n].type)}} :
                      k \in {d \in DOMAIN EnvMapping(env) : Cardinality(Declared(d)) = 1}}
          \cup {Item("missing", i, env, schema[i].key, Msg(ErrMissingRequired(schema[i].key, env))) :
              i \in {n \in 1..Len(schema) :
                       /\ schema[n].required
                       /\ schema[n].key \notin DOMAIN EnvMapping(env)
                       /\ schema[n].default = VNull}}
          : env \in EnvsChecked}

\* C1: when the schema document loads and validation returns, every
\* violation is reported: the version check and, for every entry, the
\* duplicate-key, duplicate-path, path-format and default-type checks, and for
\* every environment checked the check of each key and the scan for missing
\* required values; each message appears at least as often as there are
\* places that violate it, so no error suppresses another.
C1_CompleteErrors ==
    (Validated /\ schema_status = "ok") =>
        \A it \in Violations :
            CountMsg(errors, it.msg) >= Cardinality({o \in Violations : o.msg = it.msg})

\* C1 witness: a validated schema whose second entry repeats the key and the
\* path of the first, with an environment that has an unknown key and lacks a
\* required value: all four errors are reported.
C1_Witness ==
    /\ Validated /\ schema_status = "ok"
    /\ {"dupkey", "duppath", "unknown", "missing"} \subseteq {it.src : it \in Violations}
    /\ Len(errors) >= 4

\* C2: with distinct schema keys and a values document that yields a mapping
\* for the environment, there is exactly one missing-required error for each
\* key whose entry is required, absent from the mapping and without default,
\* and none for any other key.
C2_MissingRequiredExact ==
    DistinctKeys =>
        \A env \in EnvsChecked :
            \A k \in {"k1", "k2", "k3"} :
                Count(errors, ErrMissingRequired(k, env)) =
                    IF \E i \in Declared(k) :
                           /\ schema[i].required
                           /\ k \notin DOMAIN EnvMapping(env)
                           /\ schema[i].default = VNull
                    THEN 1 ELSE 0

\* C2 witness: two entries with distinct keys, both required and absent from
\* the environment's mapping, one with a default and one without: exactly
\* one missing-required error.
C2_Witness ==
    /\ DistinctKeys /\ Len(schema) = 2
    /\ \E env \in EnvsChecked :
        /\ \A i \in 1..2 : schema[i].required /\ schema[i].key \notin DOMAIN EnvMapping(env)
        /\ \E i, j \in 1..2 : schema[i].default = VNull /\ schema[j].default # VNull
        /\ Cardinality({n \in DOMAIN errors : errors[n].kind = "Missing required value"}) = 1

\* A value that is not a well-formed secret reference.
IsLiteral(value) == ~WellFormedRef(value)

HasTypeMismatch(k, env) ==
    \E n \in DOMAIN errors :
        errors[n].kind = "Type mismatch" /\ errors[n].key = k /\ errors[n].env = env

\* C3 as stated: for every entry marked sensitive and every literal value of
\* its key in an environment, an invalid-secret-structure error is reported
\* for the key and no type-mismatch error.
C3_Original ==
    \A env \in EnvsChecked :
        \A k \in DOMAIN EnvMapping(env) :
            \A i \in Declared(k) :
                (schema[i].sensitive /\ IsLiteral(EnvMapping(env)[k])) =>
                    /\ Count(errors, ErrSecretStructure(k, env)) >= 1
                    /\ ~HasTypeMismatch(k, env)

\* The last entry that declares key k.
IsLastDeclaration(i) == \A j \in Declared(schema[i].key) : j <= i

\* C3 amended: for every entry marked sensitive that is the last entry of the
\* schema declaring its key (every sensitive entry when keys are distinct) and
\* every literal value of its key in an environment, an
\* invalid-secret-structure error is reported for the key and no
\* type-mismatch error, whatever the declared type.
C3_SensitiveLiteral ==
    \A env \in EnvsChecked :
        \A k \in DOMAIN EnvMapping(env) :
            \A i \in Declared(k) :
                (schema[i].sensitive /\ IsLastDeclaration(i) /\ IsLiteral(EnvMapping(env)[k])) =>
                    /\ Count(errors, ErrSecretStructure(k, env)) = 1
                    /\ ~HasTypeMismatch(k, env)

\* C3 witness: a sensitive entry of declared type number whose value in the
\* environment is a string: invalid secret structure is reported.
C3_Witness ==
    \E env \in EnvsChecked :
        \E k \in DOMAIN EnvMapping(env) :
            \E i \in Declared(k) :
                /\ schema[i].sensitive /\ IsLastDeclaration(i)
                /\ schema[i].type = "number" /\ EnvMapping(env)[k] = VStr
                /\ Count(errors, ErrSecretStructure(k, env)) = 1

DupPathErrors(errs) == SelectSeq(errs, LAMBDA e : e.kind = "Duplicate path")

SchemaPaths == {schema[i].path : i \in 1..Len(schema)}

Permuted(pi) == [i \in 1..Len(schema) |-> schema[pi[i]]]

\* C9: the number of duplicate-path errors is the number of entries minus
\* the number of distinct paths, each error names a path that occurs more
\* than once, and validating any permutation of the entries reports each
\* duplicate-path error the same number of times.
C9_DuplicatePaths ==
    (Validated /\ schema_status = "ok") =>
        LET dups == DupPathErrors(errors)
        IN /\ Len(dups) = Len(schema) - Cardinality(SchemaPaths)
           /\ \A n \in DOMAIN dups :
                 /\ dups[n].path \in SchemaPaths
                 /\ Cardinality({i \in 1..Len(schema) : schema[i].path = dups[n].path}) >= 2
           /\ \A pi \in Perms(1..Len(schema)) :
                 LET other == DupPathErrors(SchemaEntriesLoop(Permuted(pi), 1, {}, {}, <<>>))
                 IN \A p \in SchemaPaths :
                       Count(other, ErrDupPath(p)) = Count(dups, ErrDupPath(p))

\* C9 witness: two entries with different keys and the same path, otherwise
\* valid: exactly one duplicate-path error, and it is the only error.
C9_Witness ==
    /\ Validated /\ schema_status = "ok" /\ Len(schema) = 2
    /\ schema[1].key # schema[2].key /\ schema[1].path = schema[2].path
    /\ schema_version = "1.0"
    /\ errors = <<ErrDupPath(schema[1].path)>>

\* C10 as stated: for a sensitive entry whose value is a mapping with a type
\* field other than "env", an unsupported-secret-type error is reported and
\* no invalid-secret-structure error; an invalid-secret-structure error is
\* reported only when the value is not a mapping, lacks a type field, or has
\* type "env" without a string name.
C10_Original ==
    \A env \in EnvsChecked :
        \A k \in DOMAIN EnvMapping(env) :
            LET value == EnvMapping(env)[k]
            IN (k \in SchemaMapKeys /\ SchemaMap(k).sensitive) =>
                  /\ OtherTypedRef(value) =>
                        /\ CountMsg(errors, Msg(ErrUnsupportedSecret(value.ty))) >= 1
                        /\ Count(errors, ErrSecretStructure(k, env)) = 0
                  /\ Count(errors, ErrSecretStructure(k, env)) >= 1 =>
                        \/ value.kind # "dict"
                        \/ value.ty = NoField
                        \/ value.ty = "env" /\ value.name \in {NoField, NonString}

(***************************************************************************)
(* Properties of validation over several environments                      *)
(***************************************************************************)
Called == v_result # "none"

ValuesErrors(errs) == SelectSeq(errs, LAMBDA e : e.context = "Values")

\* The Values errors of validate_all(E) for E alone.
AloneErrors(E, ko) == ValuesErrors(RunEnv(E, ko, environ).errors)

\* C11 as stated: after validation with no environment given, the Values
\* errors reported are, with multiplicity, those that validating E alone
\* reports, taken over every E whose file values-<E>.json is present.
C11_Original ==
    (Called /\ v_env = NoEnv) =>
        \E ko \in KeyOrders :
            \A e \in {errors[n] : n \in DOMAIN errors}
                      \cup UNION {{AloneErrors(E, ko)[n] : n \in DOMAIN AloneErrors(E, ko)} :
                                     E \in PresentFiles} :
                e.context = "Values" =>
                    Count(errors, e) =
                        Cardinality({x \in PresentFiles \X (1..4) :
                                        /\ x[2] \in DOMAIN AloneErrors(x[1], ko)
                                        /\ AloneErrors(x[1], ko)[x[2]] = e})

\* C12 as stated: every Values error carries the name of the environment it
\* was found in (the one given, when one is given), and every Schema error
\* carries none.
C12_Original ==
    \A n \in DOMAIN errors :
        /\ errors[n].context = "Values" =>
              /\ errors[n].env # NoEnv
              /\ v_env # NoEnv => errors[n].env = v_env
        /\ errors[n].context = "Schema" => errors[n].env = NoEnv

\* C13 as stated: when the schema document is missing, not valid JSON or
\* fails construction, validation returns failure with exactly one error, of
\* context "Schema", whatever the values documents hold and whether one
\* environment or all are validated.
C13_Original ==
    (Called /\ schema_status # "ok") =>
        /\ v_result = "fail"
        /\ Len(errors) = 1
        /\ errors[1].context = "Schema"

\* C14 as stated: when every values document parses as JSON, validate_all
\* returns (pass or fail, with its error list) and raises no exception.
C14_Original ==
    (Called /\ \A e \in DOMAIN files : files[e].shape # "badjson") =>
        /\ v_result \in {"pass", "fail"}
        /\ v_exc = NoExc

\* The schema-level checks report nothing.
SchemaClean == schema_status = "ok" /\ {it \in Violations : it.env = NoEnv} = {}

\* C15: when environment E has no values document, validating E adds no
\* Values error, not even for required entries without default, and succeeds
\* exactly when the schema-level checks report nothing.
C15_AbsentDocument ==
    (Called /\ v_env # NoEnv /\ FileOf(v_env).shape = "absent") =>
        /\ v_exc = NoExc
        /\ ValuesErrors(errors) = <<>>
        /\ (v_result = "pass") <=> SchemaClean

\* C15 witness: the schema has a required entry without default, the
\* environment validated has no values document, and validation passes.
C15_Witness ==
    /\ Called /\ v_env # NoEnv /\ FileOf(v_env).shape = "absent"
    /\ \E i \in 1..Len(schema) : schema[i].required /\ schema[i].default = VNull
    /\ v_result = "pass"

\* C16: the outcome of validate_all (result, error list, exception) is one
\* the same call produces under every other state of the process
\* environment: set, unset or empty variables change at most the warnings.
C16_EnvironIrrelevant ==
    Called =>
        \A other \in [EnvVarNames -> EnvVarStates] :
            \E forder \in Perms(PresentFiles), ko \in KeyOrders :
                LET r == IF v_env = NoEnv THEN RunAll(forder, ko, other)
                         ELSE RunEnv(v_env, ko, other)
                IN r.errors = errors /\ r.exc = v_exc

\* C16 witness: a well-formed env reference names a variable that is unset;
\* validation passes and prints the warning.
C16_Witness ==
    /\ Called /\ v_result = "pass"
    /\ \E n \in EnvVarNames : environ[n] = "unset"
    /\ \E w \in DOMAIN v_warnings : v_warnings[w].name \in EnvVarNames

(***************************************************************************)
(* Properties of the type-check rule                                       *)
(***************************************************************************)
\* C4: the type-check rule accepts (value, type) exactly when type is string
\* and the value a string, number and the value an integer or float and not
\* a boolean, boolean and the value a boolean, array and the value a list,
\* object and the value a mapping; null values and other type names are
\* rejected.
C4_TypeCheckRule == tc_done => (tc_result <=> TypeRule(tc_value, tc_type))

\* C4 witness: a boolean checked against number is rejected.
C4_Witness == tc_done /\ tc_value = VBool /\ tc_type = "number" /\ ~tc_result

(***************************************************************************)
(* The generator of the specification (section 4.4), over schema and       *)
(* environment mapping                                                     *)
(***************************************************************************)
\* Step 1: the environment's raw value if present, else the schema default,
\* else absent (VNull).
GeneratorEffectiveValue(entry, env_values) ==
    IF entry.key \in DOMAIN env_values THEN env_values[entry.key]
    ELSE IF entry.default # VNull THEN entry.default
    ELSE VNull

\* Step 3: the entries that make generation abort.
GeneratorMissing(env_values) ==
    {i \in 1..Len(schema) :
        schema[i].required /\ GeneratorEffectiveValue(schema[i], env_values) = VNull}

\* Steps 4 and 5: the leaves of the output, or the abort.
GeneratorOutput(env_values) ==
    IF GeneratorMissing(env_values) # {}
    THEN [aborted |-> TRUE, leaves |-> {}]
    ELSE [aborted |-> FALSE,
          leaves |-> {<<schema[i].path, GeneratorEffectiveValue(schema[i], env_values)>> :
                         i \in {n \in 1..Len(schema) :
                                  GeneratorEffectiveValue(schema[n], env_values) # VNull}}]

Generated == g_loaded /\ g_deployment \in deployments

HasValue(pd) == GetValue(pd, g_deployment) # NoValue

MissingRequiredPaths ==
    {path_map[i].path : i \in {n \in 1..Len(path_map) :
                                 path_map[n].required /\ ~HasValue(path_map[n])}}

ValuedPaths == {i \in 1..Len(path_map) : HasValue(path_map[i])}

Leaves(tree) == {a \in DOMAIN tree : tree[a] # DictNode}

\* C5 as stated: generation fails with the missing-required-values error if
\* and only if some required path has no value for the deployment; the error
\* names exactly those paths and no tree is returned.
C5_Original ==
    Generated =>
        /\ (g_exc = "ValueError: Missing required values") <=> (MissingRequiredPaths # {})
        /\ MissingRequiredPaths # {} =>
              /\ {g_missing[n] : n \in DOMAIN g_missing} = MissingRequiredPaths
              /\ g_tree = NoTree

\* C6 as stated: for pairwise distinct paths of which no required one lacks
\* a value, generation succeeds and the tree, read along the segments of
\* each path, holds the value of each path that has one and no other leaf.
C6_Original ==
    (Generated /\ MissingRequiredPaths = {}) =>
        /\ g_exc = NoExc
        /\ \A i \in ValuedPaths :
              /\ Split(path_map[i].path) \in DOMAIN g_tree
              /\ g_tree[Split(path_map[i].path)] = GetValue(path_map[i], g_deployment)
        /\ \A a \in Leaves(g_tree) : \E i \in ValuedPaths : Split(path_map[i].path) = a

\* C8: when generation returns a tree, no optional path without value has a
\* leaf in it, every mapping below the root has a leaf descendant that holds
\* the value of a path with a value, and the tree is the empty mapping when
\* no path has a value.
C8_NoPlaceholders ==
    (Generated /\ g_exc = NoExc) =>
        /\ \A i \in 1..Len(path_map) :
              (~path_map[i].required /\ ~HasValue(path_map[i])) =>
                  Split(path_map[i].path) \notin Leaves(g_tree)
        /\ \A a \in DOMAIN g_tree :
              (a # <<>> /\ g_tree[a] = DictNode) =>
                  \E i \in ValuedPaths :
                      LET leaf == Split(path_map[i].path)
                      IN /\ IsPrefix(a, leaf) /\ a # leaf
                         /\ leaf \in DOMAIN g_tree
                         /\ g_tree[leaf] = GetValue(path_map[i], g_deployment)
        /\ ValuedPaths = {} => g_tree = EmptyTree

\* C8 witness: the optional path a.b.c has no value and another path has
\* one: the tree holds that other leaf and nothing under a.
C8_Witness ==
    /\ Generated /\ g_exc = NoExc
    /\ \E i \in 1..Len(path_map) :
          path_map[i].path = Pabc /\ ~path_map[i].required /\ ~HasValue(path_map[i])
    /\ ValuedPaths # {}
    /\ <<Pa>> \notin DOMAIN g_tree

\* C17: a generate call that fails (configuration not loaded, empty
\* deployment, deployment not declared, required value missing, or any other
\* exception while the tree is built) leaves the values file as it was: none
\* is created and an existing one is not modified.
C17_NoFileOnFailure == [][g_exc' # NoExc => g_file' = g_file]_vars

\* C17 witness: generation failed on a missing required value after the
\* output directory was created, and no values file exists.
C17_Witness ==
    /\ g_exc = "ValueError: Missing required values"
    /\ g_outdir
    /\ g_file = NoTree

\* C18: no step of validation or of generation changes the schema document,
\* the values documents, the process environment, the declared paths with
\* their metadata and stored values, or the deployments, whether the
\* operation succeeds or fails; and a step that changes the validator's
\* results changes nothing of generation, its output file included.
C18_ReadOnly ==
    [][/\ schema_status' = schema_status
       /\ schema_version' = schema_version
       /\ schema' = schema
       /\ files' = files
       /\ environ' = environ
       /\ path_map' = path_map
       /\ deployments' = deployments
       /\ <<errors, v_env, v_exc, v_result, v_warnings>>' #
             <<errors, v_env, v_exc, v_result, v_warnings>> => gvars' = gvars]_vars

\* C18 witness: over the same documents a validation has failed and a
\* generation has written a tree that holds a stored value.
C18_Witness ==
    /\ v_result = "fail"
    /\ Generated /\ g_exc = NoExc
    /\ g_file # NoTree /\ Leaves(g_file) # {}
    /\ path_map # <<>>

(***************************************************************************)
(* Properties of the lock                                                  *)
(***************************************************************************)
\* Process p is between a successful acquire_lock and its release_lock.
Holding(p) ==
    \/ pc[p] \in {"load", "run", "save"}
    \/ pc[p] = "finally" /\ lock_fd[p] # None

\* C19: at most one process at a time is between a successful acquire_lock
\* and its release_lock, that process is the one the lock is granted to, and
\* the configuration it loaded is still what the file holds while it runs:
\* no other command has written the file since.
C19_MutualExclusion ==
    /\ \A p, q \in Procs : (Holding(p) /\ Holding(q)) => p = q
    /\ \A p \in Procs : Holding(p) => flock_owner = p
    /\ \A p \in Procs :
          (pc[p] = "run" /\ ~command[p].skip_config_load) => config[p] = config_file

\* C19 witness: one process runs its command on a configuration an earlier
\* command saved, while another was refused the lock.
C19_Witness ==
    \E p, q \in Procs :
        /\ pc[p] = "run" /\ config[p].state = "ok" /\ config[p].rev >= 1
        /\ pc[q] = "finally" /\ x_exc[q] = "IOError"

\* C20: when execute has ended, by returning or by letting an exception
\* propagate, the command holds no lock and its lock descriptor is None; the
\* lock is granted only to a process still inside execute, so whenever no
\* execute is under way the lock is free for the next command.
C20_LockReleased ==
    /\ \A p \in Procs :
          pc[p] = "done" => (lock_fd[p] = None /\ flock_owner # p)
    /\ flock_owner # NoProc => Holding(flock_owner)

\* C20 witness: a command whose run raised has ended without the lock, and
\* a command of another process holds the lock.
C20_Witness ==
    \E p, q \in Procs :
        /\ pc[p] = "done" /\ x_exc[p] = "ValueError" /\ lock_fd[p] = None
        /\ flock_owner = q /\ pc[q] \in {"load", "run"}

\* C21: a command whose lock request finds the lock granted to another
\* process is refused in that very step, without waiting: IOError is raised,
\* its descriptor is closed, it goes straight to the cleanup of execute with
\* no configuration loaded, and neither that step nor its cleanup touches the
\* configuration file or the lock of the other process; after the cleanup
\* execute has ended, run never having been called.
C21_LockRefused ==
    [][\A p \in Procs :
          /\ (pc[p] = "flock" /\ flock_owner # NoProc /\ pc'[p] # "flock") =>
                /\ pc'[p] = "finally"
                /\ x_exc'[p] = "IOError"
                /\ lock_fd'[p] = None
                /\ config'[p] = NoConfig
                /\ flock_owner' = flock_owner
                /\ config_file' = config_file
          /\ (pc[p] = "finally" /\ x_exc[p] = "IOError" /\ pc'[p] # "finally") =>
                /\ pc'[p] = "done"
                /\ lock_fd'[p] = None
                /\ config'[p] = NoConfig
                /\ flock_owner' = flock_owner
                /\ config_file' = config_file]_vars

\* C21 witness: a refused command has ended while the process that was
\* holding the lock still holds it.
C21_Witness ==
    \E p, q \in Procs :
        /\ p # q
        /\ pc[p] = "done" /\ x_exc[p] = "IOError" /\ lock_fd[p] = None
        /\ config[p] = NoConfig
        /\ flock_owner = q /\ Holding(q)

\* C22: the step in which a command fails, and every later step of that
\* command, leave helm-values.json as it was; and a command only ever fails
\* before its write, in the lock request, in load_config, in run or in the
\* validation save_config makes before opening the file.
C22_FailureLeavesFile ==
    [][\A p \in Procs :
          /\ (x_exc'[p] # NoExc /\ pc'[p] # pc[p]) => config_file' = config_file
          /\ (x_exc[p] = NoExc /\ x_exc'[p] # NoExc) =>
                pc[p] \in {"flock", "load", "run", "save"}]_vars

\* C22 witness: a command that changed the configuration in memory was
\* stopped by validation, and the file still holds the revision before.
C22_Witness ==
    \E p \in Procs :
        /\ pc[p] = "finally" /\ lock_fd[p] # None
        /\ command[p].kind = "write" /\ x_exc[p] = "ValidationError"
        /\ config_file.state = "ok" /\ config[p] = Revision(config_file.rev + 1)

(***************************************************************************)
(* Properties of the simple backend                                        *)
(***************************************************************************)
\* C23: a set_value or remove_value call on the pair (path, environment)
\* leaves get_value of every other pair as it was: the same value, or still
\* no value found.
C23_Original ==
    [][\A p2 \in BackendPaths, e2 \in BackendEnvs :
          <<p2, e2>> # <<b_call'.path, b_call'.environment>> =>
              BackendGetValue(storage', p2, e2) = BackendGetValue(storage, p2, e2)]_vars

(***************************************************************************)
(* Properties of the string form, the parser and the path checks           *)
(***************************************************************************)
\* The bracketed form: "[<env>] <context>: <message>" with an environment,
\* "<context>: <message>" without.
BracketedForm(e) ==
    IF e.env # NoEnv
    THEN <<"[">> \o e.env \o <<"]", " ", e.context, ":", " ">> \o Message(e)
    ELSE <<e.context, ":", " ">> \o Message(e)

\* C24: the string form of a validation error is "[<env>] <context>:
\* <message>", starting with the opening bracket, when an environment is
\* attached, and "<context>: <message>" otherwise.
C24_Original ==
    ve_str # NoStr => (ve_str = BracketedForm(ve_error) /\ (ve_error.env # NoEnv => ve_str[1] = "["))

\* C27: a value parse_value_by_type returns for a declared type satisfies
\* the Validator's type rule for that type.
C27_Original ==
    pv_result.outcome = "returned" => ValidateValueType(pv_result.value, pv_type)

\* C29: validate_path_format accepts a path exactly when validation reports
\* no invalid-path-format error for an entry with that path.
C29_Original ==
    pf_editor # "none" => pf_editor = pf_validator

(***************************************************************************)
(* Properties of the schema and values commands                            *)
(***************************************************************************)
\* The entry the commands find for a key.
EntryOf(key) == schema[CHOOSE x \in FirstIndex(schema, key) : TRUE]

\* C25: every value stored for a key whose schema entry is sensitive is a
\* secret reference, a mapping with type "env" and a string name.
C25_Original ==
    \A env \in Envs : \A key \in DOMAIN LoadValues(env) :
        (FirstIndex(schema, key) # {} /\ EntryOf(key).sensitive) =>
            WellFormedRef(LoadValues(env)[key])

\* C26: the Validator reads a document the values commands wrote as the
\* mapping they wrote for the environment, so it reports no key of the
\* document as a missing required value.
C26_Original ==
    \A env \in Envs :
        saved_values[env].present =>
            /\ FileOf(env).shape = "keyed"
            /\ FileOf(env).env_values = LoadValues(env)
            /\ \A key \in DOMAIN LoadValues(env) : \A ko \in KeyOrders :
                  \A i \in 1..Len(RunEnv(env, ko, environ).errors) :
                      RunEnv(env, ko, environ).errors[i] # ErrMissingRequired(key, env)

\* C28: no two entries of a schema built by add, update and remove target
\* the same path, and validating it reports no duplicate path.
C28_Original ==
    /\ \A i, j \in 1..Len(schema) : schema[i].path = schema[j].path => i = j
    /\ DupPathErrors(ValidateSchema(<<>>)) = <<>>

\* C30: no two entries of a schema built by add, update and remove share a
\* key, and validating it reports no duplicate key.
C30_KeysUnique ==
    /\ DistinctKeys
    /\ \A i \in 1..Len(ValidateSchema(<<>>)) :
          ValidateSchema(<<>>)[i].kind # "Duplicate key"

\* C30 witness: a schema of two entries, the later key added first.
C30_Witness ==
    /\ Len(schema) = 2 /\ schema[1].key = "k2" /\ schema[2].key = "k1"
    /\ schema[1].path = schema[2].path
    /\ saved_values[<<"dev">>].present

====
